---- MODULE Spec2Model ----
(***************************************************************************)
(* A model of the external-API resilience layer of the picker application: *)
(*   strategies/rate_limiter.py  RateLimiter (token bucket) and            *)
(*                               RedisRateLimiter (sliding window)         *)
(*   strategies/cache_utils.py   cached, _generate_cache_key,              *)
(*                               invalidate_cache                          *)
(*   strategies/api_monitoring.py  ApiCallMonitor                          *)
(*                                                                         *)
(* Time is discrete.  `now` is the value time() returns, in ticks.  Each   *)
(* component has its own specification over the shared clock:              *)
(*   SpecLimiter  a limiter of the class selected at import, called from   *)
(*                several threads (token bucket) or processes (window)     *)
(*   SpecCache    a cached-decorated function and its backing store        *)
(*   SpecInvalidate  the same with invalidate_cache                        *)
(*   SpecMonitor  the two ApiCallMonitor instances called from several     *)
(*                processes                                                *)
(* A wrapper's last statement, the return of the wrapped callable's        *)
(* result, is taken in the same step as the statement before it.           *)
(***************************************************************************)
EXTENDS Integers, Sequences, FiniteSets, TLC

\* ------------------------------------------------------------------ bounds
\* Last clock tick of a behaviour.
MaxTime == 4
\* Largest calls_per_second a limiter is constructed with.
MaxRate == 2
\* Clock ticks in the time one token takes to refill (1/calls_per_second s):
\* the clock's resolution.  Tokens are counted in units of 1/TicksPerToken.
TicksPerToken == 2
\* Threads calling through one RateLimiter instance.
NThreads == 2
\* Wrapper calls made through a limiter in one behaviour.
MaxCalls == 4

VARIABLES
    now,            \* time()
    RateLimiterClass,   \* the limiter class selected at import (rate_limiter.py:161)
    \* ---- the import of rate_limiter.py (lines 131-167)
    DEBUG,          \* settings.DEBUG
    selpc,          \* "start" | "set" | "get" | "delete" | "done"
    probe,          \* what the store holds under '_rate_limiter_test'
    selRead,        \* what the probe's cache.get returned ("unread": it did not run)
    selErr,         \* the probe operation that raised ("": none)
    yfinance_limiter,   \* the instance built at line 164
    finnhub_limiter,    \* the instance built at line 167
    \* ---- RateLimiter instance (rate_limiter.py:37-41)
    rate,           \* self.rate
    tokens,         \* self.tokens, in units of 1/TicksPerToken token
    last_update,    \* self.last_update
    lock,           \* self.lock: the thread holding it, or NoThread
    \* ---- threads inside RateLimiter.__call__.wrapper
    tbpc,           \* thread -> "idle" | "acquire" | "sleep", and in SpecBucket also
                    \* "refill" | "check" | "take"
    tbargs,         \* thread -> the arguments the wrapper was called with
    tbwake,         \* thread -> the tick at which its sleep(wait_time) may return
    tbcalls,        \* wrapper calls started so far
    tbInvoked,      \* the ticks at which the wrapped callable was invoked, in order
    tbSlept,        \* the sleep each of these invocations' calls asked for (0: none)
    tbLast,         \* the wrapper call that completed last
    tbSequential,   \* no two wrapper calls have overlapped so far
    \* ---- RedisRateLimiter instance (rate_limiter.py:79-81) and its store entry
    calls_per_second,   \* self.calls_per_second
    decorated,      \* the __name__ of the functions decorated with the instance
    swStore,        \* the store: key "rate_limit:<func.__name__>" -> entry or NoEntry
    \* ---- processes inside RedisRateLimiter.__call__.wrapper
    swpc,           \* process -> "idle" | "sleep" | "set"
    swfunc,         \* process -> the __name__ of the function whose wrapper it called
    swargs,         \* process -> the arguments the wrapper was called with
    swnow,          \* process -> its local `now`
    swdata,         \* process -> its local cache_data['calls']
    swsleep,        \* process -> its local sleep_time when it sleeps (0: it does not)
    swcalls,        \* wrapper calls started so far
    swInvoked,      \* the ticks at which the wrapped callable was invoked, in order
    swSlept,        \* the sleep each of these invocations' calls asked for (0: none)
    swLast,         \* the wrapper call that completed last
    swConcurrent,   \* the callers may overlap (else each call starts after the last ended)
    swStoreOk,      \* no store operation has raised so far
    swPrompt,       \* every call so far reached cache.set in the tick it read the clock
    \* ---- a cached-decorated function (cache_utils.py:48-95) and the store
    cIn,            \* the argument lists the function is called with in this behaviour
    cache,          \* the store: a set of entries [key, val, exp]
    cpc,            \* "idle" | "exec" (the function runs after a miss)
    cCur,           \* the wrapper call in progress
    cLast,          \* the wrapper call that completed last
    cPrev,          \* the wrapper call that completed before cLast
    ccalls,         \* wrapper calls started so far
    cInv,           \* the invalidate_cache call made last (cache_utils.py:207-245)
    \* ---- the ApiCallMonitor instances (api_monitoring.py:205-215) and the store
    monStore,       \* the store: key -> entry [stats, exp]
    \* ---- processes inside ApiCallMonitor.record_call
    monpc,          \* process -> "idle" | "set" | "check" | "alert"
    monapi,         \* process -> self.api_name of the monitor it calls
    monin,          \* process -> the arguments success, response_code, latency_ms
    monread,        \* process -> the stats its cache.get returned
    monstats,       \* process -> its local `stats`
    moncalls,       \* record_call calls started so far
    monResets,      \* api -> reset_stats calls made so far
    monSince,       \* api -> record_call calls started since its last reset_stats, or
                    \* started before it and still to store their stats
    monAlerts,      \* api -> the ticks at which _handle_rate_limit_exceeded ran, in order
    monSequential,  \* no operation has started while a record_call was in progress
    monStoreOk,     \* no store operation of the monitors has raised so far
    fcache,         \* the store of the cached wrapper of _fetch_ticker_info
    fpc,            \* the position of the call of _fetch_ticker_info in progress
    fsym,           \* its symbol
    fstart,         \* its start_time
    fnet,           \* what its network call did
    ftrace,         \* the steps it has taken, in order
    frec,           \* the arguments of its record_call calls, in order
    fcalls,         \* calls of _fetch_ticker_info made so far
    fLast           \* the last completed call of _fetch_ticker_info

tbVars == <<rate, tokens, last_update, lock, tbpc, tbargs, tbwake,
            tbcalls, tbInvoked, tbSlept, tbLast, tbSequential>>

swVars == <<calls_per_second, decorated, swStore, swpc, swfunc, swargs, swnow, swdata, swsleep,
            swcalls, swInvoked, swSlept, swLast, swConcurrent, swStoreOk, swPrompt>>

cVars == <<cIn, cache, cpc, cCur, cLast, cPrev, ccalls, cInv>>

selVars == <<DEBUG, selpc, probe, selRead, selErr, yfinance_limiter, finnhub_limiter>>

monVars == <<monStore, monpc, monapi, monin, monread, monstats, moncalls, monResets, monSince,
             monAlerts, monSequential, monStoreOk>>

fVars == <<fcache, fpc, fsym, fstart, fnet, ftrace, frec, fcalls, fLast>>

vars == <<now, RateLimiterClass, selVars, tbVars, swVars, cVars, monVars, fVars>>

\* ------------------------------------------------------------ shared parts
\* threading.Lock() unlocked: no thread holds it.
NoThread == 0

\* What a wrapper can be called with, and what the wrapped callable can do:
\* return a value or raise.
Args == {"AAPL", "TSLA"}
FuncOutcomes == {"return:info", "raise:HTTPError"}

\* A completed wrapper call: the arguments it was called with, the arguments of
\* each invocation of the wrapped callable it made, what the callable did, what
\* the wrapper did, the sleep it asked for (0: none), and whether a store
\* operation raised during it.
CallRecord(a, fa, fo, o, sl, e) ==
    [args |-> a, fargs |-> fa, fout |-> fo, out |-> o, slept |-> sl, err |-> e]
NoCall == CallRecord("none", <<>>, "none", "none", 0, FALSE)

\* A limiter that rejects the call it would have had to delay.
RejectDelayed(a, o, sl, e) ==
    IF sl > 0 THEN CallRecord(a, <<>>, "none", "raise:RateLimitExceeded", sl, e)
    ELSE CallRecord(a, <<a>>, o, o, sl, e)

\* return func(args, kwargs): the callable is invoked once with the wrapper's
\* arguments, and what it does is what the wrapper does.
ReturnFunc(a, o, sl, e) == CallRecord(a, <<a>>, o, o, sl, e)

\* The clock: time() is taken to be non-decreasing.
Tick ==
    /\ now < MaxTime
    /\ now' = now + 1
    /\ UNCHANGED <<RateLimiterClass, selVars, fVars, monVars, tbVars, swVars, cVars>>

\* ------------------------------------------------- RateLimiter (token bucket)
Threads == 1..NThreads

Min(a, b) == IF a <= b THEN a ELSE b

\* Ticks in one second for an instance of the given rate.
Second(r) == r * TicksPerToken

\* A refill capped at one token whatever the rate.
RefillToOne(tok, elapsed, r) == Min(TicksPerToken, tok + elapsed)

\* A refill without the cap.
RefillUncapped(tok, elapsed, r) == tok + elapsed

\* self.tokens = min(self.rate, self.tokens + elapsed * self.rate), in token units:
\* elapsed ticks are elapsed/(rate*TicksPerToken) seconds, hence elapsed/TicksPerToken
\* tokens, hence `elapsed` units.
Refill(tok, elapsed, r) == Min(r * TicksPerToken, tok + elapsed)

\* A wait of a whole second.
WaitSecond(tok) == Second(MaxRate)

\* wait_time = (1 - self.tokens) / self.rate, in ticks.
WaitTime(tok) == TicksPerToken - tok

\* RateLimiter.__init__
TBInit ==
    /\ rate \in 1..MaxRate
    /\ tokens = rate * TicksPerToken
    /\ last_update = now
    /\ lock = NoThread
    /\ tbpc = [t \in Threads |-> "idle"]
    /\ tbargs = [t \in Threads |-> "none"]
    /\ tbwake = [t \in Threads |-> 0]
    /\ tbcalls = 0
    /\ tbInvoked = <<>>
    /\ tbSlept = <<>>
    /\ tbLast = NoCall
    /\ tbSequential = TRUE

\* A thread calls the wrapper of a RateLimiter instance and reaches `with self.lock`.
TBCall(t) ==
    /\ RateLimiterClass = "RateLimiter"
    /\ tbpc[t] = "idle"
    /\ tbcalls < MaxCalls
    /\ \E a \in Args : tbargs' = [tbargs EXCEPT ![t] = a]
    /\ tbpc' = [tbpc EXCEPT ![t] = "acquire"]
    /\ tbcalls' = tbcalls + 1
    /\ tbSequential' = (tbSequential /\ \A u \in Threads : tbpc[u] = "idle")
    /\ UNCHANGED <<RateLimiterClass, selVars, fVars, monVars, now, rate, tokens, last_update, lock, tbwake, tbInvoked, tbSlept, tbLast,
                   swVars, cVars>>

\* The wrapper's last statement, by thread t whose call asked to sleep sl ticks.
TBReturn(t, sl) ==
    /\ \E o \in FuncOutcomes : tbLast' = ReturnFunc(tbargs[t], o, sl, FALSE)
    /\ tbInvoked' = Append(tbInvoked, now)
    /\ tbSlept' = Append(tbSlept, sl)
    /\ tbpc' = [tbpc EXCEPT ![t] = "idle"]
    /\ tbargs' = [tbargs EXCEPT ![t] = "none"]

\* The body under the lock: refill, then either start the sleep (still holding
\* the lock) or take a token, leave the block and invoke the callable.
TBAcquire(t) ==
    /\ tbpc[t] = "acquire"
    /\ lock = NoThread
    /\ LET elapsed == now - last_update
           tok == Refill(tokens, elapsed, rate)
       IN  /\ last_update' = now
           /\ IF tok < TicksPerToken
              THEN /\ tokens' = tok
                   /\ lock' = t
                   /\ tbwake' = [tbwake EXCEPT ![t] = now + WaitTime(tok)]
                   /\ tbpc' = [tbpc EXCEPT ![t] = "sleep"]
                   /\ UNCHANGED <<tbargs, tbInvoked, tbSlept, tbLast>>
              ELSE /\ tokens' = tok - TicksPerToken
                   /\ lock' = NoThread
                   /\ TBReturn(t, 0)
                   /\ UNCHANGED tbwake
    /\ UNCHANGED <<RateLimiterClass, selVars, fVars, monVars, now, rate, tbcalls, tbSequential, swVars, cVars>>

\* sleep(wait_time) returns (no earlier than asked); self.tokens = 0; the lock
\* is released and the callable invoked.
TBWake(t) ==
    /\ tbpc[t] = "sleep"
    /\ now >= tbwake[t]
    /\ tokens' = 0
    /\ lock' = NoThread
    /\ TBReturn(t, WaitTime(tokens))
    /\ tbwake' = [tbwake EXCEPT ![t] = 0]
    /\ UNCHANGED <<RateLimiterClass, selVars, fVars, monVars, now, rate, last_update, tbcalls, tbSequential, swVars, cVars>>

\* ---- the statements of the `with self.lock` block, one step each
\* A lock that is granted whoever holds it.
NoLock(l) == TRUE

\* with self.lock: the lock is granted when no thread holds it.
LockFree(l) == l = NoThread

\* Thread t enters the block.
TBEnter(t) ==
    /\ tbpc[t] = "acquire"
    /\ LockFree(lock)
    /\ lock' = t
    /\ tbpc' = [tbpc EXCEPT ![t] = "refill"]
    /\ UNCHANGED <<RateLimiterClass, selVars, fVars, monVars, now, rate, tokens, last_update, tbargs,
                   tbwake, tbcalls, tbInvoked, tbSlept, tbLast, tbSequential, swVars, cVars>>

\* now = time(); the refill; self.last_update = now.
TBRefill(t) ==
    /\ tbpc[t] = "refill"
    /\ tokens' = Refill(tokens, now - last_update, rate)
    /\ last_update' = now
    /\ tbpc' = [tbpc EXCEPT ![t] = "check"]
    /\ UNCHANGED <<RateLimiterClass, selVars, fVars, monVars, now, rate, lock, tbargs,
                   tbwake, tbcalls, tbInvoked, tbSlept, tbLast, tbSequential, swVars, cVars>>

\* if self.tokens < 1: the sleep starts; else the decrement is next.
TBCheck(t) ==
    /\ tbpc[t] = "check"
    /\ IF tokens < TicksPerToken
       THEN /\ tbwake' = [tbwake EXCEPT ![t] = now + WaitTime(tokens)]
            /\ tbpc' = [tbpc EXCEPT ![t] = "sleep"]
       ELSE /\ tbpc' = [tbpc EXCEPT ![t] = "take"]
            /\ UNCHANGED tbwake
    /\ UNCHANGED <<RateLimiterClass, selVars, fVars, monVars, now, rate, tokens, last_update, lock,
                   tbargs, tbcalls, tbInvoked, tbSlept, tbLast, tbSequential, swVars, cVars>>

\* self.tokens -= 1; the block is left and the callable invoked.
TBTake(t) ==
    /\ tbpc[t] = "take"
    /\ tokens' = tokens - TicksPerToken
    /\ lock' = NoThread
    /\ TBReturn(t, 0)
    /\ UNCHANGED <<RateLimiterClass, selVars, fVars, monVars, now, rate, last_update,
                   tbwake, tbcalls, tbSequential, swVars, cVars>>

\* --------------------------------------- RedisRateLimiter (sliding window)
\* Ticks in self.window_seconds: the clock's resolution for the sliding window.
WindowTicks == 2
window_seconds == WindowTicks

\* Processes (workers) calling one function through one RedisRateLimiter.
NProcs == 2
Procs == 1..NProcs

\* The store holds nothing under the key.
NoEntry == [calls |-> <<>>, last_check |-> -1, exp |-> -1]

\* cache.get(key, {'calls': [], 'last_check': now})['calls']: the stored list while
\* the entry's timeout has not elapsed, else the default's empty list.
StoredCalls(entry, t) == IF entry # NoEntry /\ t < entry.exp THEN entry.calls ELSE <<>>

\* [call_time for call_time in cache_data['calls'] if now - call_time < self.window_seconds]
Prune(calls, t) == SelectSeq(calls, LAMBDA c : t - c < window_seconds)

\* min(cache_data['calls'])
Oldest(calls) == CHOOSE c \in {calls[i] : i \in 1..Len(calls)} :
                    \A i \in 1..Len(calls) : c <= calls[i]

\* sleep_time = self.window_seconds - (now - oldest_call)
SleepTime(calls, t) == window_seconds - (t - Oldest(calls))

\* len(cache_data['calls']) >= self.calls_per_second and sleep_time > 0
MustSleep(calls, t) == Len(calls) >= calls_per_second /\ SleepTime(calls, t) > 0

\* Functions decorated with yfinance_limiter (stock_data.py:178, and the
\* callers of the same instance).
FuncNames == {"_fetch_ticker_info", "get_market_context"}

\* key = f"rate_limit:{func.__name__}"
RateKey(f) == "rate_limit:" \o f
RateKeys == {RateKey(f) : f \in FuncNames}

\* RedisRateLimiter.__init__, the functions it decorates, an empty store, and
\* callers that overlap or not.
SWInitWith(funcs, concurrent) ==
    /\ calls_per_second \in 1..MaxRate
    /\ decorated = funcs
    /\ swStore = [k \in RateKeys |-> NoEntry]
    /\ swpc = [p \in Procs |-> "idle"]
    /\ swfunc = [p \in Procs |-> "none"]
    /\ swargs = [p \in Procs |-> "none"]
    /\ swnow = [p \in Procs |-> 0]
    /\ swdata = [p \in Procs |-> <<>>]
    /\ swsleep = [p \in Procs |-> 0]
    /\ swcalls = 0
    /\ swInvoked = <<>>
    /\ swSlept = <<>>
    /\ swLast = NoCall
    /\ swConcurrent = concurrent
    /\ swStoreOk = TRUE
    /\ swPrompt = TRUE

\* One decorated function and callers that do not overlap.
SWInit == SWInitWith({"_fetch_ticker_info"}, FALSE)

\* A wrapper that fails closed: a store error reaches the caller and the
\* callable is not invoked.
SWFailClosed(p, a, sl, e) ==
    /\ IF e THEN /\ swLast' = CallRecord(a, <<>>, "none", "raise:ConnectionError", sl, e)
                 /\ swInvoked' = swInvoked
                 /\ swSlept' = swSlept
            ELSE /\ \E o \in FuncOutcomes : swLast' = ReturnFunc(a, o, sl, e)
                 /\ swInvoked' = Append(swInvoked, now)
                 /\ swSlept' = Append(swSlept, sl)
    /\ swpc' = [swpc EXCEPT ![p] = "idle"]
    /\ swfunc' = [swfunc EXCEPT ![p] = "none"]
    /\ swargs' = [swargs EXCEPT ![p] = "none"]
    /\ swnow' = [swnow EXCEPT ![p] = 0]
    /\ swdata' = [swdata EXCEPT ![p] = <<>>]
    /\ swsleep' = [swsleep EXCEPT ![p] = 0]

\* The wrapper's last statement, by process p called with a, whose call asked to
\* sleep sl ticks and saw a store error or not.
SWReturn(p, a, sl, e) ==
    /\ \E o \in FuncOutcomes : swLast' = ReturnFunc(a, o, sl, e)
    /\ swInvoked' = Append(swInvoked, now)
    /\ swSlept' = Append(swSlept, sl)
    /\ swpc' = [swpc EXCEPT ![p] = "idle"]
    /\ swfunc' = [swfunc EXCEPT ![p] = "none"]
    /\ swargs' = [swargs EXCEPT ![p] = "none"]
    /\ swnow' = [swnow EXCEPT ![p] = 0]
    /\ swdata' = [swdata EXCEPT ![p] = <<>>]
    /\ swsleep' = [swsleep EXCEPT ![p] = 0]

\* The wrapper is called: now = time(); cache.get raises (the except clause is
\* taken and the callable invoked), or returns the history, which is pruned and
\* compared with the limit; a full window starts the sleep.
SWCall(p) ==
    /\ RateLimiterClass = "RedisRateLimiter"
    /\ swpc[p] = "idle"
    /\ swcalls < MaxCalls
    /\ swcalls' = swcalls + 1
    /\ swConcurrent \/ \A q \in Procs : swpc[q] = "idle"
    /\ \E a \in Args, f \in decorated :
          \/ /\ swStoreOk' = FALSE
             /\ SWReturn(p, a, 0, TRUE)
          \/ LET calls == Prune(StoredCalls(swStore[RateKey(f)], now), now)
             IN  /\ swfunc' = [swfunc EXCEPT ![p] = f]
                 /\ swargs' = [swargs EXCEPT ![p] = a]
                 /\ swnow' = [swnow EXCEPT ![p] = now]
                 /\ swdata' = [swdata EXCEPT ![p] = calls]
                 /\ swpc' = [swpc EXCEPT ![p] =
                                IF MustSleep(calls, now) THEN "sleep" ELSE "set"]
                 /\ swsleep' = [swsleep EXCEPT ![p] =
                                IF MustSleep(calls, now)
                                THEN SleepTime(calls, now) ELSE 0]
                 /\ UNCHANGED <<swStoreOk, swInvoked, swSlept, swLast>>
    /\ UNCHANGED <<RateLimiterClass, selVars, fVars, monVars, now, tbVars, cVars, calls_per_second, decorated, swStore,
                   swConcurrent, swPrompt>>

\* sleep(sleep_time) returns (no earlier than asked); now = time();
\* cache_data['calls'] = [].
SWWake(p) ==
    /\ swpc[p] = "sleep"
    /\ now >= swnow[p] + swsleep[p]
    /\ swnow' = [swnow EXCEPT ![p] = now]
    /\ swdata' = [swdata EXCEPT ![p] = <<>>]
    /\ swpc' = [swpc EXCEPT ![p] = "set"]
    /\ UNCHANGED <<RateLimiterClass, selVars, fVars, monVars, now, tbVars, cVars, calls_per_second, decorated, swStore,
                   swfunc, swargs, swsleep,
                   swcalls, swInvoked, swSlept, swLast, swConcurrent, swStoreOk, swPrompt>>

\* cache_data['calls'].append(now); cache_data['last_check'] = now;
\* cache.set(key, cache_data, timeout=self.window_seconds * 2), which stores the
\* entry or raises (the except clause is taken); then the callable is invoked.
SWSet(p) ==
    /\ swpc[p] = "set"
    /\ swPrompt' = (swPrompt /\ now = swnow[p])
    /\ \/ /\ swStore' = [swStore EXCEPT ![RateKey(swfunc[p])] =
                            [calls |-> Append(swdata[p], swnow[p]),
                             last_check |-> swnow[p],
                             exp |-> now + window_seconds * 2]]
          /\ SWReturn(p, swargs[p], swsleep[p], FALSE)
          /\ UNCHANGED swStoreOk
       \/ /\ swStoreOk' = FALSE
          /\ SWReturn(p, swargs[p], swsleep[p], TRUE)
          /\ UNCHANGED swStore
    /\ UNCHANGED <<RateLimiterClass, selVars, fVars, monVars, now, tbVars, cVars, calls_per_second, decorated,
                   swcalls, swConcurrent>>

\* ------------------------------------- the import of rate_limiter.py (131-167)
\* RateLimiterClass before line 161 has run.
Unset == "unset"

\* calls_per_second of yfinance_limiter and of finnhub_limiter.
YfinanceRate == 5
FinnhubRate == 1

\* RateLimiterClass(calls_per_second=n)
Instance(cls, n) == [class |-> cls, calls_per_second |-> n]
NoInstance == Instance(Unset, 0)

\* Any value read back passes.
AnyReadBack(value) == TRUE

\* cache.get('_rate_limiter_test') == 'test'
ReadBack(value) == value = "test"

\* The module before its import.
SelInit ==
    /\ DEBUG \in BOOLEAN
    /\ selpc = "start"
    /\ probe = "None"
    /\ selRead = "unread"
    /\ selErr = ""
    /\ yfinance_limiter = NoInstance
    /\ finnhub_limiter = NoInstance

\* The module after an import that selected cls without an error.
Selected(cls) ==
    /\ DEBUG = (cls = "RateLimiter")
    /\ selpc = "done"
    /\ probe = "None"
    /\ selRead = IF cls = "RateLimiter" THEN "unread" ELSE "test"
    /\ selErr = ""
    /\ yfinance_limiter = Instance(cls, YfinanceRate)
    /\ finnhub_limiter = Instance(cls, FinnhubRate)

\* _get_rate_limiter_class() returns cls: lines 161-167 bind RateLimiterClass
\* and build the two instances, a token bucket starting its clock now.
Select(cls) ==
    /\ RateLimiterClass' = cls
    /\ yfinance_limiter' = Instance(cls, YfinanceRate)
    /\ finnhub_limiter' = Instance(cls, FinnhubRate)
    /\ last_update' = now
    /\ selpc' = "done"

\* if settings.DEBUG: return RateLimiter; else the probe begins.
SelStart ==
    /\ selpc = "start"
    /\ IF DEBUG
       THEN Select("RateLimiter")
       ELSE /\ selpc' = "set"
            /\ UNCHANGED <<RateLimiterClass, yfinance_limiter, finnhub_limiter, last_update>>
    /\ UNCHANGED <<DEBUG, probe, selRead, selErr, now, rate, tokens, lock, tbpc, tbargs,
                   tbwake, tbcalls, tbInvoked, tbSlept, tbLast, tbSequential,
                   swVars, cVars, monVars, fVars>>

\* cache.set('_rate_limiter_test', 'test', timeout=1) raises, or stores the
\* value, or returns having kept nothing (a backend that stores nothing, or the
\* entry timing out before it is read).
ProbeSet ==
    /\ selpc = "set"
    /\ \/ /\ selErr' = "set"
          /\ Select("RateLimiter")
          /\ UNCHANGED probe
       \/ /\ probe' \in {"test", "None"}
          /\ selpc' = "get"
          /\ UNCHANGED <<selErr, RateLimiterClass, yfinance_limiter, finnhub_limiter,
                         last_update>>
    /\ UNCHANGED <<DEBUG, selRead, now, rate, tokens, lock, tbpc, tbargs,
                   tbwake, tbcalls, tbInvoked, tbSlept, tbLast, tbSequential,
                   swVars, cVars, monVars, fVars>>

\* cache.get('_rate_limiter_test') raises, or its value is compared with 'test'.
ProbeGet ==
    /\ selpc = "get"
    /\ \/ /\ selErr' = "get"
          /\ Select("RateLimiter")
          /\ UNCHANGED selRead
       \/ /\ selRead' = probe
          /\ IF ReadBack(probe)
             THEN /\ selpc' = "delete"
                  /\ UNCHANGED <<RateLimiterClass, yfinance_limiter, finnhub_limiter,
                                 last_update>>
             ELSE Select("RateLimiter")
          /\ UNCHANGED selErr
    /\ UNCHANGED <<DEBUG, probe, now, rate, tokens, lock, tbpc, tbargs,
                   tbwake, tbcalls, tbInvoked, tbSlept, tbLast, tbSequential,
                   swVars, cVars, monVars, fVars>>

\* cache.delete('_rate_limiter_test') raises (the except clause is taken and
\* RateLimiter returned), or deletes and RedisRateLimiter is returned.
ProbeDelete ==
    /\ selpc = "delete"
    /\ \/ /\ selErr' = "delete"
          /\ Select("RateLimiter")
          /\ UNCHANGED probe
       \/ /\ probe' = "None"
          /\ Select("RedisRateLimiter")
          /\ UNCHANGED selErr
    /\ UNCHANGED <<DEBUG, selRead, now, rate, tokens, lock, tbpc, tbargs,
                   tbwake, tbcalls, tbInvoked, tbSlept, tbLast, tbSequential,
                   swVars, cVars, monVars, fVars>>

\* ------------------------------------------------ cached (cache_utils.py)
\* Argument values.  t is the Python type, a the text str() gives for it (for
\* an int or a str that is the value itself), k the index in KeyNames of the
\* key the value is stored under in its enclosing dict (0: none), items the
\* elements of a list or tuple, or the values of a dict in insertion order.
Val(t, a, items) == [t |-> t, a |-> a, k |-> 0, items |-> items]
At(k, v) == [v EXCEPT !.k = k]
KeyNames == <<"a", "b">>

Int1 == Val("int", "1", <<>>)
Int2 == Val("int", "2", <<>>)
Str1 == Val("str", "1", <<>>)
PyList(items) == Val("list", "", items)
PyTuple(a, items) == Val("tuple", a, items)
PyDict(items) == Val("dict", "", items)
\* An instance of a class: its str() and its __dict__.
PyObject(a, items) == Val("object", a, items)
\* A list that contains itself: json.dumps raises ValueError (circular reference).
Circular == Val("circular", "[[...]]", <<>>)
\* A dict with a tuple among its keys: json.dumps raises TypeError.
TupleKeyed == Val("tuplekeyed", "{(1, 2): 1}", <<>>)

\* A list nested deeper than the interpreter's recursion limit: json.dumps
\* raises RecursionError.
Deep == Val("deep", "[[[[...]]]]", <<>>)

IsErr(str) == str \in {"!TypeError", "!ValueError", "!RecursionError"}

\* except (TypeError, ValueError)
Caught(exc) == exc \in {"!TypeError", "!ValueError"}

\* The first error among the parts, or "" when there is none.
RECURSIVE FirstErr(_)
FirstErr(parts) ==
    IF parts = <<>> THEN ""
    ELSE IF IsErr(Head(parts)) THEN Head(parts) ELSE FirstErr(Tail(parts))

\* sep.join(parts)
RECURSIVE Join(_, _)
Join(parts, sep) ==
    IF parts = <<>> THEN ""
    ELSE IF Len(parts) = 1 THEN parts[1]
    ELSE parts[1] \o sep \o Join(Tail(parts), sep)

\* Items left in insertion order.
InsertionOrder(items) == items

\* sort_keys=True: the items of a dict in the order of their keys.
RECURSIVE SortKeys(_)
SortKeys(items) ==
    IF items = <<>> THEN <<>>
    ELSE LET m == CHOOSE i \in 1..Len(items) : \A j \in 1..Len(items) : items[i].k <= items[j].k
         IN  <<items[m]>> \o SortKeys(SelectSeq(items, LAMBDA x : x.k # items[m].k))

\* json.dumps(v, sort_keys=True, default=str): the text, or "!TypeError" /
\* "!ValueError" when it raises.  A tuple is written as a list is; an object is
\* written as the string default=str makes of it.
RECURSIVE Dumps(_)
Dumps(v) ==
    CASE v.t = "int" -> v.a
      [] v.t = "str" -> "\"" \o v.a \o "\""
      [] v.t = "object" -> "\"" \o v.a \o "\""
      [] v.t = "circular" -> "!ValueError"
      [] v.t = "tuplekeyed" -> "!TypeError"
      [] v.t = "deep" -> "!RecursionError"
      [] v.t \in {"list", "tuple"} ->
            LET parts == [i \in 1..Len(v.items) |-> Dumps(v.items[i])]
            IN  IF FirstErr(parts) # "" THEN FirstErr(parts)
                ELSE "[" \o Join(parts, ", ") \o "]"
      [] v.t = "dict" ->
            LET sorted == SortKeys(v.items)
                parts == [i \in 1..Len(sorted) |-> Dumps(sorted[i])]
                pairs == [i \in 1..Len(sorted) |->
                             "\"" \o KeyNames[sorted[i].k] \o "\": " \o parts[i]]
            IN  IF FirstErr(parts) # "" THEN FirstErr(parts)
                ELSE "{" \o Join(pairs, ", ") \o "}"

\* The loop body of _generate_cache_key: a dict or list is dumped; an object's
\* __dict__ is dumped, with str(arg) as the fallback when that raises; anything
\* else is str(arg).
Normalize(arg) ==
    IF arg.t \in {"dict", "list", "circular", "tuplekeyed", "deep"} THEN Dumps(arg)
    ELSE IF arg.t = "object"
         THEN LET d == Dumps(PyDict(arg.items)) IN IF Caught(d) THEN arg.a ELSE d
         ELSE arg.a

\* A digest of the length of the string alone.
Md5OfLength(str) == "md5:" \o ToString(Len(str))

\* hashlib.md5(key_str.encode('utf-8')).hexdigest(), taken to be free of
\* collisions: the digest stands for the string it was made of.
Md5(str) == "md5:" \o str

\* _generate_cache_key(func, args, kwargs, key_prefix): [exc, key], where exc is
\* the exception raised ("" when none) and key the digest.
GenerateCacheKey(fname, args, kwargs, key_prefix) ==
    LET normalized_args ==
            [i \in 1..Len(args) |-> Normalize(args[i])]
            \o (IF kwargs # <<>> THEN <<Dumps(PyDict(kwargs))>> ELSE <<>>)
        key_parts == <<key_prefix, fname>> \o normalized_args
        key_str == Join(SelectSeq(key_parts, LAMBDA part : part # ""), ":")
    IN  IF FirstErr(normalized_args) # ""
        THEN [exc |-> FirstErr(normalized_args), key |-> ""]
        ELSE [exc |-> "", key |-> Md5(key_str)]

\* The decorated function: @cached(ttl_seconds=TtlTicks, key_prefix='stock_info').
TtlTicks == 2
ttl_seconds == TtlTicks
KeyPrefix == "stock_info"
FuncName == "fetch"

\* Wrapper calls made through the cached function in one behaviour.
MaxCachedCalls == 3

\* A call f(args, kwargs); kwargs are held as the values of a dict are.
Call(args, kwargs) == [args |-> args, kwargs |-> kwargs]
F1 == Call(<<Int1>>, <<>>)
DictAB == PyDict(<<At(1, Int1), At(2, Int2)>>)
DictBA == PyDict(<<At(2, Int2), At(1, Int1)>>)

\* The pairs of calls a behaviour's two argument lists are drawn from.
CallPairs == <<
    <<Call(<<>>, <<>>), Call(<<>>, <<>>)>>,
    <<F1, F1>>,
    <<F1, Call(<<Str1>>, <<>>)>>,
    <<F1, Call(<<Int1, Int2>>, <<>>)>>,
    <<Call(<<DictAB>>, <<>>), Call(<<DictBA>>, <<>>)>>,
    <<Call(<<DictAB>>, <<>>), Call(<<PyDict(<<At(1, Int2), At(2, Int1)>>)>>, <<>>)>>,
    <<Call(<<PyDict(<<At(1, DictAB), At(2, Int1)>>)>>, <<>>),
      Call(<<PyDict(<<At(2, Int1), At(1, DictBA)>>)>>, <<>>)>>,
    <<Call(<<Int1>>, <<At(1, Int1), At(2, Int2)>>),
      Call(<<Int1>>, <<At(2, Int2), At(1, Int1)>>)>>,
    <<Call(<<PyList(<<Int1, Int2>>)>>, <<>>), Call(<<PyList(<<Int2, Int1>>)>>, <<>>)>>,
    <<Call(<<PyList(<<PyTuple("(1,)", <<Int1>>), PyList(<<Int1>>)>>)>>, <<>>),
      Call(<<PyList(<<PyList(<<Int1>>), PyTuple("(1,)", <<Int1>>)>>)>>, <<>>)>>,
    <<Call(<<Circular>>, <<>>), F1>>,
    <<Call(<<TupleKeyed>>, <<>>), F1>>,
    <<Call(<<Int1>>, <<At(1, Circular)>>), F1>>,
    <<Call(<<PyList(<<Int1, Deep>>)>>, <<>>), F1>>,
    <<Call(<<PyObject("<Stock object at 0x1>", <<At(1, Int1)>>)>>, <<>>),
      Call(<<PyDict(<<At(1, Int1)>>)>>, <<>>)>>,
    <<Call(<<PyObject("<Node object at 0x2>", <<At(1, Circular)>>)>>, <<>>), F1>> >>

\* What the wrapped function can do: return None or a value, or raise.
Outcome(kind, val) == [kind |-> kind, val |-> val]
NoOutcome == Outcome("none", "")
CachedOutcomes == {Outcome("return", "None"), Outcome("return", "info"),
                   Outcome("raise", "HTTPError")}

\* A wrapper call: which of the behaviour's argument lists it was made with,
\* the key (or the exception of its derivation), the tick it was made at,
\* whether it was a hit, how often it invoked the function, what the function
\* did, what the wrapper did, how often it called cache.get and cache.set, and
\* whether these raised.
NoCachedCall ==
    [inp |-> 0, key |-> "", exc |-> "", start |-> -1,
     hit |-> FALSE, invoked |-> 0, fout |-> NoOutcome, out |-> NoOutcome,
     gets |-> 0, sets |-> 0, geterr |-> FALSE, seterr |-> FALSE]

\* The call stored its result.
Stored(c) == c.sets = 1 /\ ~c.seterr

\* A store that never drops an entry.
LiveForever(store, key, t) == {e \in store : e.key = key}

\* The live entry under the key, as a set (empty or a singleton): the store
\* drops an entry when its timeout has elapsed.
Live(store, key, t) == {e \in store : e.key = key /\ t < e.exp}

\* cache.get(key): the value of the live entry, else None.
CacheGet(store, key, t) ==
    IF Live(store, key, t) = {} THEN "None"
    ELSE (CHOOSE e \in Live(store, key, t) : TRUE).val

\* cache.set(key, value, timeout): the entry replaces the one under the key and
\* expires timeout ticks from now.
CacheSet(store, key, val, timeout, t) ==
    {e \in store : e.key # key} \cup {[key |-> key, val |-> val, exp |-> t + timeout]}

\* The expiry of the entry held under the key, live or not (-1: none).
ExpiryOf(store, key) ==
    IF \E e \in store : e.key = key
    THEN (CHOOSE e \in store : e.key = key).exp ELSE -1

\* invalidate_cache calls made in one behaviour.
MaxInvalidations == 1

\* An invalidate_cache call: which of the behaviour's argument lists it was
\* made with, what it returned, whether it deleted a live entry, whether no
\* wrapper call has started since, and how many such calls there have been.
NoInvalidate == [inp |-> 0, ret |-> FALSE, had |-> FALSE, fresh |-> FALSE, n |-> 0]

CInit ==
    /\ \E i \in 1..Len(CallPairs) : cIn = CallPairs[i]
    /\ cInv = NoInvalidate
    /\ cache = {}
    /\ cpc = "idle"
    /\ cCur = NoCachedCall
    /\ cLast = NoCachedCall
    /\ cPrev = NoCachedCall
    /\ ccalls = 0

\* What is kept of a call once another has completed after it: its arguments
\* and key, when it was made, what it returned and whether it stored that.
Earlier(c) ==
    [NoCachedCall EXCEPT !.inp = c.inp, !.key = c.key, !.exc = c.exc,
                         !.start = c.start, !.hit = c.hit, !.out = c.out, !.sets = IF Stored(c) THEN 1 ELSE 0]

\* The wrapper completes with record c.
CachedDone(c) ==
    /\ cPrev' = Earlier(cLast)
    /\ cLast' = c
    /\ cCur' = NoCachedCall
    /\ cpc' = "idle"

\* wrapper, to the point where the function is called or the wrapper returns
\* without calling it: the key is derived; if that raises TypeError or
\* ValueError the function is called uncached (and what it does is what the
\* wrapper does); if it raises anything else the wrapper raises the same; else
\* cache.get raises (and so does the wrapper), or is a hit and its value is
\* returned, or is a miss and the function starts.
CachedCall(n) ==
    /\ cpc = "idle"
    /\ ccalls < MaxCachedCalls
    /\ ccalls' = ccalls + 1
    /\ LET k == GenerateCacheKey(FuncName, cIn[n].args, cIn[n].kwargs, KeyPrefix)
           c == [NoCachedCall EXCEPT !.inp = n, !.key = k.key, !.exc = k.exc,
                                     !.start = now]
       IN  IF Caught(k.exc)
           THEN /\ \E o \in CachedOutcomes :
                      CachedDone([c EXCEPT !.invoked = 1, !.fout = o, !.out = o])
                /\ UNCHANGED cache
           ELSE IF k.exc # ""
           THEN /\ CachedDone([c EXCEPT !.out = Outcome("raise", k.exc)])
                /\ UNCHANGED cache
           ELSE \/ /\ CachedDone([c EXCEPT !.gets = 1, !.geterr = TRUE,
                                           !.out = Outcome("raise", "ConnectionError")])
                   /\ UNCHANGED cache
                \/ LET cached_value == CacheGet(cache, k.key, now)
                       c2 == [c EXCEPT !.gets = 1]
                   IN  IF cached_value # "None"
                       THEN /\ CachedDone([c2 EXCEPT !.hit = TRUE,
                                              !.out = Outcome("return", cached_value)])
                            /\ UNCHANGED cache
                       ELSE /\ cpc' = "exec"
                            /\ cCur' = c2
                            /\ UNCHANGED <<cache, cLast, cPrev>>
    /\ cInv' = [cInv EXCEPT !.fresh = FALSE]
    /\ UNCHANGED <<RateLimiterClass, selVars, fVars, monVars, now, tbVars, swVars, cIn>>

\* The function called after a miss raises (the wrapper raises the same), or
\* returns: cache.set(cache_key, result, ttl_seconds) stores the result or raises
\* (which is logged), and the result is returned.
CachedReturn ==
    /\ cpc = "exec"
    /\ \E o \in CachedOutcomes :
          LET c == [cCur EXCEPT !.invoked = 1, !.fout = o, !.out = o]
          IN  IF o.kind = "raise"
              THEN /\ CachedDone(c)
                   /\ UNCHANGED cache
              ELSE \/ /\ cache' = CacheSet(cache, cCur.key, o.val, ttl_seconds, now)
                      /\ CachedDone([c EXCEPT !.sets = 1])
                   \/ /\ CachedDone([c EXCEPT !.sets = 1, !.seterr = TRUE])
                      /\ UNCHANGED cache
    /\ UNCHANGED <<RateLimiterClass, selVars, fVars, monVars, now, tbVars, swVars, cIn, ccalls, cInv>>

\* The prefix taken when the function has no cache_info.
NoPrefix == ""

\* func.cache_info().get('prefix', ''): the prefix the function was decorated with.
CacheInfoPrefix == KeyPrefix

\* cache.delete(key)
CacheDelete(store, key) == {e \in store : e.key # key}

\* invalidate_cache(func, args, kwargs) between two wrapper calls: the key is
\* derived with the prefix of cache_info() and deleted, and True returned; if
\* the derivation or cache.delete raises, the exception is logged and False
\* returned.  The record of completed wrapper calls starts afresh.
InvalidateCache(n) ==
    /\ cpc = "idle"
    /\ cInv.n < MaxInvalidations
    /\ LET k == GenerateCacheKey(FuncName, cIn[n].args, cIn[n].kwargs, CacheInfoPrefix)
           inv == [cInv EXCEPT !.inp = n, !.fresh = TRUE, !.n = cInv.n + 1]
       IN  IF k.exc # ""
           THEN /\ cInv' = [inv EXCEPT !.ret = FALSE, !.had = FALSE]
                /\ UNCHANGED cache
           ELSE \/ /\ cInv' = [inv EXCEPT !.ret = FALSE, !.had = FALSE]
                   /\ UNCHANGED cache
                \/ /\ cInv' = [inv EXCEPT !.ret = TRUE,
                                           !.had = (Live(cache, k.key, now) # {})]
                   /\ cache' = CacheDelete(cache, k.key)
    /\ cLast' = NoCachedCall
    /\ cPrev' = NoCachedCall
    /\ UNCHANGED <<RateLimiterClass, selVars, fVars, monVars, now, tbVars, swVars, cIn, cpc, cCur, ccalls>>

NextCache ==
    \/ Tick
    \/ \E n \in 1..2 : CachedCall(n)
    \/ CachedReturn

\* ------------------------------------------ ApiCallMonitor (api_monitoring.py)
\* The api_name of the two registered monitors.
Apis == {"yfinance", "finnhub"}

\* Clock ticks in window_minutes * 60 seconds.
MonWindowTicks == 2
\* Clock ticks in self._alert_cooldown_seconds.
CooldownTicks == 2
\* record_call calls made in one behaviour.
MaxMonCalls == 2
\* reset_stats calls made on one monitor in one behaviour.
MaxResets == 1

\* if stats['total'] < 20
MinSample == 20
\* rate_limit_threshold=0.05, in percent
ThresholdPct == 5
\* stats['latencies'][-100:]
KeptLatencies == 100
\* latency_ms=None
NoLatency == -1

\* One calls key for all monitors.
SharedCallsKey(api) == "api_monitor:calls"

\* key = f"api_monitor:{self.api_name}:calls"
CallsKey(api) == "api_monitor:" \o api \o ":calls"
\* cooldown_key = f"api_monitor:{self.api_name}:alert_cooldown"
CooldownKey(api) == "api_monitor:" \o api \o ":alert_cooldown"
MonKeys == {CallsKey(a) : a \in Apis} \cup {CooldownKey(a) : a \in Apis}

Stats(total, failed, rate_limited, latencies, start_time) ==
    [total |-> total, failed |-> failed, rate_limited |-> rate_limited,
     latencies |-> latencies, start_time |-> start_time]

\* self._get_empty_stats() at tick t
EmptyStats(t) == Stats(0, 0, 0, <<>>, t)

\* The store holds nothing under a key.
NoMonEntry == [stats |-> EmptyStats(-1), exp |-> -1]

\* The entry under the key has not timed out.
MonLive(store, key, t) == t < store[key].exp

\* cache.get(key, default)
MonGet(store, key, default, t) ==
    IF MonLive(store, key, t) THEN store[key].stats ELSE default

\* cache.set(key, value, timeout=timeout)
MonSet(store, key, stats, timeout, t) ==
    [store EXCEPT ![key] = [stats |-> stats, exp |-> t + timeout]]

\* cache.delete(key)
MonDelete(store, key) == [store EXCEPT ![key] = NoMonEntry]

\* The arguments of record_call.
MonArgs(success, response_code, latency_ms) ==
    [success |-> success, response_code |-> response_code, latency_ms |-> latency_ms]
NoMonArgs == MonArgs(TRUE, 0, NoLatency)
MonInputs == {MonArgs(TRUE, 200, 100), MonArgs(FALSE, 429, NoLatency),
              MonArgs(FALSE, 500, NoLatency), MonArgs(TRUE, 429, NoLatency)}

\* seq[-n:]
LastN(seq, n) == IF Len(seq) <= n THEN seq ELSE SubSeq(seq, Len(seq) - n + 1, Len(seq))

\* The counter updates with `elif response_code == 429`: a failed call is
\* never counted as rate limited.
UpdateStatsElif(stats, in) ==
    [stats EXCEPT
        !.total = @ + 1,
        !.failed = IF ~in.success THEN @ + 1 ELSE @,
        !.rate_limited = IF in.success /\ in.response_code = 429 THEN @ + 1 ELSE @,
        !.latencies = IF in.latency_ms # NoLatency
                      THEN LastN(Append(@, in.latency_ms), KeptLatencies) ELSE @]

\* The counter updates of record_call.
UpdateStats(stats, in) ==
    [stats EXCEPT
        !.total = @ + 1,
        !.failed = IF ~in.success THEN @ + 1 ELSE @,
        !.rate_limited = IF in.response_code = 429 THEN @ + 1 ELSE @,
        !.latencies = IF in.latency_ms # NoLatency
                      THEN LastN(Append(@, in.latency_ms), KeptLatencies) ELSE @]

\* The comparison with >= in place of >.
AtOrOverThreshold(stats) == stats.rate_limited * 100 >= ThresholdPct * stats.total

\* stats['rate_limited'] / stats['total'] > self.rate_limit_threshold
OverThreshold(stats) == stats.rate_limited * 100 > ThresholdPct * stats.total

\* _check_rate_limit_threshold reaches the cooldown check.
ReachesCooldownCheck(stats) == ~(stats.total < MinSample) /\ OverThreshold(stats)

\* A bucket that MinSample - 1 calls, one of them answered 429, filled at tick 0.
SeededStats == Stats(MinSample - 1, 1, 1, <<>>, 0)

\* The sets of monitors whose bucket was filled at tick 0.
SeededApis == {{}, {"yfinance"}}

\* The monitors of the module, with no bucket or with a bucket filled at tick 0.
MonInit ==
    /\ \E seeded \in SeededApis :
          /\ monStore = [k \in MonKeys |->
                           IF \E a \in seeded : k = CallsKey(a)
                           THEN [stats |-> SeededStats, exp |-> MonWindowTicks]
                           ELSE NoMonEntry]
          /\ monSince = [a \in Apis |-> IF a \in seeded THEN SeededStats.total ELSE 0]
    /\ monpc = [p \in Procs |-> "idle"]
    /\ monapi = [p \in Procs |-> "none"]
    /\ monin = [p \in Procs |-> NoMonArgs]
    /\ monread = [p \in Procs |-> EmptyStats(-1)]
    /\ monstats = [p \in Procs |-> EmptyStats(-1)]
    /\ moncalls = 0
    /\ monResets = [a \in Apis |-> 0]
    /\ monAlerts = [a \in Apis |-> <<>>]
    /\ monSequential = TRUE
    /\ monStoreOk = TRUE

\* record_call returns in process p; err: a store operation raised and the
\* except clause logged it.
MonDone(p, err) ==
    /\ monpc' = [monpc EXCEPT ![p] = "idle"]
    /\ monapi' = [monapi EXCEPT ![p] = "none"]
    /\ monin' = [monin EXCEPT ![p] = NoMonArgs]
    /\ monread' = [monread EXCEPT ![p] = EmptyStats(-1)]
    /\ monstats' = [monstats EXCEPT ![p] = EmptyStats(-1)]
    /\ monStoreOk' = (monStoreOk /\ ~err)

\* record_call is called on the monitor of api: cache.get raises (logged, the
\* call is dropped) or returns the bucket or the empty stats, and the counters
\* are updated in the local copy.
MonRecordGet(p, api) ==
    /\ monpc[p] = "idle"
    /\ moncalls < MaxMonCalls
    /\ moncalls' = moncalls + 1
    /\ monSince' = [monSince EXCEPT ![api] = @ + 1]
    /\ monSequential' = (monSequential /\ \A q \in Procs : monpc[q] = "idle")
    /\ \E in \in MonInputs :
          \/ /\ monStoreOk' = FALSE
             /\ UNCHANGED <<monpc, monapi, monin, monread, monstats>>
          \/ LET stats == MonGet(monStore, CallsKey(api), EmptyStats(now), now)
             IN  /\ monpc' = [monpc EXCEPT ![p] = "set"]
                 /\ monapi' = [monapi EXCEPT ![p] = api]
                 /\ monin' = [monin EXCEPT ![p] = in]
                 /\ monread' = [monread EXCEPT ![p] = stats]
                 /\ monstats' = [monstats EXCEPT ![p] = UpdateStats(stats, in)]
                 /\ UNCHANGED monStoreOk
    /\ UNCHANGED <<RateLimiterClass, selVars, fVars, now, tbVars, swVars, cVars,
                   monStore, monResets, monAlerts>>

\* cache.set(key, stats, timeout=self.window_minutes * 60) raises (logged), or
\* stores the stats; then _check_rate_limit_threshold returns at once or goes on
\* to read the cooldown flag.
MonRecordSet(p) ==
    /\ monpc[p] = "set"
    /\ \/ /\ MonDone(p, TRUE)
          /\ UNCHANGED monStore
       \/ /\ monStore' = MonSet(monStore, CallsKey(monapi[p]), monstats[p],
                                MonWindowTicks, now)
          /\ IF ReachesCooldownCheck(monstats[p])
             THEN /\ monpc' = [monpc EXCEPT ![p] = "check"]
                  /\ UNCHANGED <<monapi, monin, monread, monstats, monStoreOk>>
             ELSE MonDone(p, FALSE)
    /\ UNCHANGED <<RateLimiterClass, selVars, fVars, now, tbVars, swVars, cVars,
                   moncalls, monResets, monSince, monAlerts, monSequential>>

\* cache.get(cooldown_key) raises (logged), or finds the flag set and returns,
\* or finds none and goes on to the alert.
MonCheck(p) ==
    /\ monpc[p] = "check"
    /\ \/ MonDone(p, TRUE)
       \/ IF MonLive(monStore, CooldownKey(monapi[p]), now)
          THEN MonDone(p, FALSE)
          ELSE /\ monpc' = [monpc EXCEPT ![p] = "alert"]
               /\ UNCHANGED <<monapi, monin, monread, monstats, monStoreOk>>
    /\ UNCHANGED <<RateLimiterClass, selVars, fVars, now, tbVars, swVars, cVars, monStore,
                   moncalls, monResets, monSince, monAlerts, monSequential>>

\* The warning is logged; cache.set(cooldown_key, True, timeout=300) raises
\* (logged), or sets the flag and _handle_rate_limit_exceeded runs.
MonAlert(p) ==
    /\ monpc[p] = "alert"
    /\ \/ /\ MonDone(p, TRUE)
          /\ UNCHANGED <<monStore, monAlerts>>
       \/ /\ monStore' = MonSet(monStore, CooldownKey(monapi[p]), EmptyStats(-1),
                                CooldownTicks, now)
          /\ monAlerts' = [monAlerts EXCEPT ![monapi[p]] = Append(@, now)]
          /\ MonDone(p, FALSE)
    /\ UNCHANGED <<RateLimiterClass, selVars, fVars, now, tbVars, swVars, cVars,
                   moncalls, monResets, monSince, monSequential>>

\* The number of record_call calls on the monitor of api that have read the
\* bucket and not yet stored it.
InFlight(api) == Cardinality({p \in Procs : monpc[p] = "set" /\ monapi[p] = api})

\* reset_stats() on the monitor of api: cache.delete(key).
MonReset(api) ==
    /\ monResets[api] < MaxResets
    /\ monResets' = [monResets EXCEPT ![api] = @ + 1]
    /\ monStore' = MonDelete(monStore, CallsKey(api))
    /\ monSince' = [monSince EXCEPT ![api] = InFlight(api)]
    /\ monSequential' = (monSequential /\ \A q \in Procs : monpc[q] = "idle")
    /\ UNCHANGED <<RateLimiterClass, selVars, fVars, now, tbVars, swVars, cVars, monpc, monapi, monin,
                   monread, monstats, moncalls, monAlerts, monStoreOk>>

\* reset_all_stats(): reset_stats() on both monitors.
MonResetAll ==
    /\ \A a \in Apis : monResets[a] < MaxResets
    /\ monResets' = [a \in Apis |-> monResets[a] + 1]
    /\ monStore' = MonDelete(MonDelete(monStore, CallsKey("yfinance")), CallsKey("finnhub"))
    /\ monSince' = [a \in Apis |-> InFlight(a)]
    /\ monSequential' = (monSequential /\ \A q \in Procs : monpc[q] = "idle")
    /\ UNCHANGED <<RateLimiterClass, selVars, fVars, now, tbVars, swVars, cVars, monpc, monapi, monin,
                   monread, monstats, moncalls, monAlerts, monStoreOk>>

NextMonitor ==
    \/ Tick
    \/ \E p \in Procs : \E a \in Apis : MonRecordGet(p, a)
    \/ \E p \in Procs : MonRecordSet(p)
    \/ \E p \in Procs : MonCheck(p)
    \/ \E p \in Procs : MonAlert(p)
    \/ \E a \in Apis : MonReset(a)
    \/ MonResetAll

\* ------------------------------------ _fetch_ticker_info (stock_data.py:178-243)
MaxFetches == 3

Symbols == {"AAPL", "MSFT"}

\* What yf.Ticker(symbol).info does: it returns the info, or raises an
\* HTTPError that carries a response with a status code, or an HTTPError made
\* without a response (its response attribute is None), or another exception.
Net(kind, status) == [kind |-> kind, status |-> status]
NoNet == Net("none", "")
NetOutcomes == {Net("return", ""), Net("HTTPError", "429"), Net("HTTPError", "500"),
                Net("HTTPError", "None"), Net("ConnectionError", "")}

\* The cache key of _fetch_ticker_info(symbol).
FetchKey(sym) ==
    GenerateCacheKey("_fetch_ticker_info", <<Val("str", sym, <<>>)>>, <<>>, KeyPrefix).key

\* e.response.status_code if hasattr(e, 'response') else None: every HTTPError
\* has the attribute, so the attribute of None is taken when there is no response.
StatusCodeRaises(o) == o.kind = "HTTPError" /\ o.status = "None"

\* The arguments record_call is given after the outcome o, ms ticks after start_time.
RecordArgs(o, ms) ==
    CASE o.kind = "return" -> [success |-> TRUE, response_code |-> "200", latency_ms |-> ms]
      [] o.kind = "HTTPError" -> [success |-> FALSE, response_code |-> o.status, latency_ms |-> ms]
      [] OTHER -> [success |-> FALSE, response_code |-> "None", latency_ms |-> ms]

\* A completed call of _fetch_ticker_info.
FetchRecord(sym, trace, net, rec, out, hit, geterr, stored) ==
    [sym |-> sym, trace |-> trace, net |-> net, rec |-> rec, out |-> out, hit |-> hit,
     geterr |-> geterr, stored |-> stored]
NoFetch == FetchRecord("", <<>>, NoNet, <<>>, "", FALSE, FALSE, FALSE)

FInit ==
    /\ fcache = {}
    /\ fpc = "idle"
    /\ fsym = ""
    /\ fstart = 0
    /\ fnet = NoNet
    /\ ftrace = <<>>
    /\ frec = <<>>
    /\ fcalls = 0
    /\ fLast = NoFetch

\* The call returns or raises out.
FetchDone(trace, net, rec, out, hit, geterr, stored) ==
    /\ fLast' = FetchRecord(fsym, trace, net, rec, out, hit, geterr, stored)
    /\ fpc' = "idle"
    /\ fsym' = ""
    /\ fstart' = 0
    /\ fnet' = NoNet
    /\ ftrace' = <<>>
    /\ frec' = <<>>

\* _fetch_ticker_info(symbol) is called: the limiter's wrapper is entered.
FetchCall(sym) ==
    /\ fpc = "idle"
    /\ fcalls < MaxFetches
    /\ fcalls' = fcalls + 1
    /\ fpc' = "limiter"
    /\ fsym' = sym
    /\ UNCHANGED <<RateLimiterClass, selVars, now, tbVars, swVars, cVars, monVars,
                   fcache, fstart, fnet, ftrace, frec, fLast>>

\* The limiter's wrapper, having slept or not, calls the cached wrapper.
FetchLimiter ==
    /\ fpc = "limiter"
    /\ fpc' = "lookup"
    /\ ftrace' = Append(ftrace, "limiter")
    /\ UNCHANGED <<RateLimiterClass, selVars, now, tbVars, swVars, cVars, monVars,
                   fcache, fsym, fstart, fnet, frec, fcalls, fLast>>

\* The cached wrapper: cache.get raises, or returns the cached value, or
\* returns None and the function body starts with start_time = time().
FetchLookup ==
    /\ fpc = "lookup"
    /\ LET trace == Append(ftrace, "lookup")
           cached_value == CacheGet(fcache, FetchKey(fsym), now)
       IN  \/ FetchDone(trace, NoNet, <<>>, "raise:ConnectionError", FALSE, TRUE, FALSE)
           \/ /\ cached_value # "None"
              /\ FetchDone(trace, NoNet, <<>>, "return:" \o cached_value, TRUE, FALSE, FALSE)
           \/ /\ cached_value = "None"
              /\ fpc' = "network"
              /\ ftrace' = trace
              /\ fstart' = now
              /\ UNCHANGED <<fsym, fnet, frec, fLast>>
    /\ UNCHANGED <<RateLimiterClass, selVars, now, tbVars, swVars, cVars, monVars,
                   fcache, fcalls>>

\* yf.Ticker(symbol).info returns or raises; the HTTPError handler raises
\* AttributeError when it takes the status code of no response.
FetchNetwork ==
    /\ fpc = "network"
    /\ \E o \in NetOutcomes :
          LET trace == Append(ftrace, "network")
          IN  IF StatusCodeRaises(o)
              THEN FetchDone(trace, o, <<>>, "raise:AttributeError", FALSE, FALSE, FALSE)
              ELSE /\ fpc' = "record"
                   /\ fnet' = o
                   /\ ftrace' = trace
                   /\ UNCHANGED <<fsym, fstart, frec, fLast>>
    /\ UNCHANGED <<RateLimiterClass, selVars, now, tbVars, swVars, cVars, monVars,
                   fcache, fcalls>>

\* yfinance_monitor.record_call(...); then return info, or raise.
FetchRecordCall ==
    /\ fpc = "record"
    /\ LET trace == Append(ftrace, "record")
           rec == Append(frec, RecordArgs(fnet, now - fstart))
       IN  IF fnet.kind = "return"
           THEN /\ fpc' = "store"
                /\ ftrace' = trace
                /\ frec' = rec
                /\ UNCHANGED <<fsym, fstart, fnet, fLast>>
           ELSE FetchDone(trace, fnet, rec, "raise:" \o fnet.kind, FALSE, FALSE, FALSE)
    /\ UNCHANGED <<RateLimiterClass, selVars, now, tbVars, swVars, cVars, monVars,
                   fcache, fcalls>>

\* cache.set(cache_key, result, ttl_seconds) stores the result or raises
\* (logged); the wrappers return the result.
FetchStore ==
    /\ fpc = "store"
    /\ LET trace == Append(ftrace, "store")
       IN  \/ /\ fcache' = CacheSet(fcache, FetchKey(fsym), "info", ttl_seconds, now)
              /\ FetchDone(trace, fnet, frec, "return:info", FALSE, FALSE, TRUE)
           \/ /\ UNCHANGED fcache
              /\ FetchDone(trace, fnet, frec, "return:info", FALSE, FALSE, FALSE)
    /\ UNCHANGED <<RateLimiterClass, selVars, now, tbVars, swVars, cVars, monVars, fcalls>>

\* ------------------------------------------------------------ specifications
\* A component that takes no step in a specification rests in one fixed state.
TBRest ==
    /\ TBInit
    /\ rate = 1

SWRest ==
    /\ SWInit
    /\ calls_per_second = 1

CRest ==
    /\ CInit
    /\ cIn = CallPairs[1]

MonRest ==
    /\ MonInit
    /\ \A a \in Apis : ~MonLive(monStore, CallsKey(a), 0)

FRest == FInit

\* _get_rate_limiter_class(): the class the module's limiters are instances of.
InitLimiter ==
    /\ now = 0
    /\ \/ RateLimiterClass = "RateLimiter" /\ TBInit /\ SWRest
       \/ RateLimiterClass = "RedisRateLimiter" /\ SWInit /\ TBRest
    /\ CRest
    /\ MonRest
    /\ FRest
    /\ Selected(RateLimiterClass)

NextLimiter ==
    \/ Tick
    \/ \E t \in Threads : TBCall(t)
    \/ \E t \in Threads : TBAcquire(t)
    \/ \E t \in Threads : TBWake(t)
    \/ \E p \in Procs : SWCall(p)
    \/ \E p \in Procs : SWWake(p)
    \/ \E p \in Procs : SWSet(p)

SpecLimiter == InitLimiter /\ [][NextLimiter]_vars

InitCache ==
    /\ now = 0
    /\ RateLimiterClass = "RateLimiter"
    /\ CInit
    /\ TBRest
    /\ SWRest
    /\ MonRest
    /\ FRest
    /\ Selected(RateLimiterClass)

SpecCache == InitCache /\ [][NextCache]_vars

\* The pairs of calls the function is called and invalidated with: calls with
\* one key, calls with two keys, and a call whose key cannot be derived.
InvalidatePairs == {3, 4, 11}

InitInvalidate ==
    /\ InitCache
    /\ \E i \in InvalidatePairs : cIn = CallPairs[i]

NextInvalidate ==
    \/ NextCache
    \/ \E n \in 1..2 : InvalidateCache(n)

SpecInvalidate == InitInvalidate /\ [][NextInvalidate]_vars

InitMonitor ==
    /\ now = 0
    /\ RateLimiterClass = "RateLimiter"
    /\ MonInit
    /\ FRest
    /\ TBRest
    /\ SWRest
    /\ CRest
    /\ Selected(RateLimiterClass)

SpecMonitor == InitMonitor /\ [][NextMonitor]_vars

\* A RedisRateLimiter instance called from processes that overlap, and one
\* that decorates two functions called one after the other.
InitWindow ==
    /\ now = 0
    /\ RateLimiterClass = "RedisRateLimiter"
    /\ \/ SWInitWith({"_fetch_ticker_info"}, TRUE)
       \/ SWInitWith(FuncNames, FALSE)
    /\ TBRest
    /\ CRest
    /\ MonRest
    /\ FRest
    /\ Selected(RateLimiterClass)

NextWindow ==
    \/ Tick
    \/ \E p \in Procs : SWCall(p)
    \/ \E p \in Procs : SWWake(p)
    \/ \E p \in Procs : SWSet(p)

SpecWindow == InitWindow /\ [][NextWindow]_vars

\* The clock does not stop while a caller sleeps.
LateTick ==
    /\ now >= MaxTime
    /\ \/ \E t \in Threads : tbpc[t] = "sleep" /\ now < tbwake[t]
       \/ \E p \in Procs : swpc[p] = "sleep" /\ now < swnow[p] + swsleep[p]
    /\ now' = now + 1
    /\ UNCHANGED <<RateLimiterClass, selVars, fVars, monVars, tbVars, swVars, cVars>>

\* Wrapper calls made through a limiter in one behaviour with fairness.
MaxFairCalls == 3

NextLimiterFair ==
    \/ NextLimiter /\ tbcalls' <= MaxFairCalls /\ swcalls' <= MaxFairCalls
    \/ LateTick

\* The limiters with a clock that advances, sleeps that end, a lock that is
\* granted fairly and processes that go on running.
SpecLimiterFair ==
    /\ InitLimiter
    /\ [][NextLimiterFair]_vars
    /\ WF_vars(Tick \/ LateTick)
    /\ \A t \in Threads : SF_vars(TBAcquire(t)) /\ WF_vars(TBWake(t))
    /\ \A p \in Procs : WF_vars(SWWake(p)) /\ WF_vars(SWSet(p))

\* A RateLimiter instance called from several threads, statement by statement.
InitBucket ==
    /\ now = 0
    /\ RateLimiterClass = "RateLimiter"
    /\ TBInit
    /\ SWRest
    /\ CRest
    /\ MonRest
    /\ FRest
    /\ Selected(RateLimiterClass)

NextBucket ==
    \/ Tick
    \/ \E t \in Threads : TBCall(t)
    \/ \E t \in Threads : TBEnter(t)
    \/ \E t \in Threads : TBRefill(t)
    \/ \E t \in Threads : TBCheck(t)
    \/ \E t \in Threads : TBTake(t)
    \/ \E t \in Threads : TBWake(t)

SpecBucket == InitBucket /\ [][NextBucket]_vars

\* The import of the module, then calls through a limiter of the class selected.
InitSelect ==
    /\ now = 0
    /\ RateLimiterClass = Unset
    /\ SelInit
    /\ TBInit
    /\ SWInit
    /\ rate = calls_per_second
    /\ CRest
    /\ MonRest
    /\ FRest

NextSelect ==
    \/ SelStart
    \/ ProbeSet
    \/ ProbeGet
    \/ ProbeDelete
    \/ NextLimiter

SpecSelect == InitSelect /\ [][NextSelect]_vars

\* Calls of _fetch_ticker_info, one after the other.
InitFetch ==
    /\ now = 0
    /\ RateLimiterClass \in {"RateLimiter", "RedisRateLimiter"}
    /\ TBRest
    /\ SWRest
    /\ CRest
    /\ MonRest
    /\ FInit
    /\ Selected(RateLimiterClass)

NextFetch ==
    \/ Tick
    \/ \E sym \in Symbols : FetchCall(sym)
    \/ FetchLimiter
    \/ FetchLookup
    \/ FetchNetwork
    \/ FetchRecordCall
    \/ FetchStore

SpecFetch == InitFetch /\ [][NextFetch]_vars

\* ---------------------------------------------------------------- properties
\* Invocations of the wrapped callable at ticks in (t - span, t].
InWindow(log, t, span) == Cardinality({i \in 1..Len(log) : log[i] <= t /\ t - log[i] < span})

\* Wrapper calls in progress.
TBInProgress == Cardinality({t \in Threads : tbpc[t] # "idle"})
SWInProgress == Cardinality({p \in Procs : swpc[p] # "idle"})

\* C1: a RateLimiter(calls_per_second=N) invokes the wrapped callables at most
\* N times within any interval of one second; stated for the interval that ends
\* at each invocation, and for callers that never overlap.
C1_AtMostNPerSecond ==
    tbSequential =>
    \A i \in 1..Len(tbInvoked) : InWindow(tbInvoked, tbInvoked[i], Second(rate)) <= rate

\* C2: with a working store and sequential callers that write the store in the
\* tick they read the clock, a RedisRateLimiter(N, W) invokes the wrapped
\* function at most N times within any interval of W seconds, the calls made
\* after a caller wakes from its sleep included.
C2_AtMostNPerWindow ==
    (swStoreOk /\ swPrompt) =>
    \A i \in 1..Len(swInvoked) :
        InWindow(swInvoked, swInvoked[i], window_seconds) <= calls_per_second

\* The call invoked the callable once, with its own arguments, and did what the
\* callable did.
InvokedOnce(c) == c.fargs = <<c.args>> /\ c.out = c.fout

\* C3: both limiters only delay: every completed wrapper call invoked the
\* wrapped callable exactly once with the arguments it was given and returned
\* its result or raised its exception, and the callable has been invoked once
\* for each completed call, none dropped and none duplicated.
C3_DelayNeverDrop ==
    /\ tbLast # NoCall => InvokedOnce(tbLast)
    /\ swLast # NoCall => InvokedOnce(swLast)
    /\ Len(tbInvoked) = tbcalls - TBInProgress
    /\ Len(swInvoked) = swcalls - SWInProgress

\* A call through the token bucket was delayed, then invoked the callable and
\* raised the callable's exception.
C3_DelayedCallInvoked ==
    /\ tbLast.slept > 0
    /\ tbLast.fargs = <<tbLast.args>>
    /\ tbLast.out = "raise:HTTPError"

\* Two calls made with the same arguments.
SameArgs(c, d) == c.inp # 0 /\ d.inp # 0 /\ cIn[c.inp] = cIn[d.inp]

\* C4: of two consecutive calls with identical arguments made within ttl_seconds,
\* where the store works and the first call invoked the function and stored
\* what it returned, the second is a hit: it does not invoke the function and
\* returns what the first returned, whatever value that is.
C4_SecondCallIsHit ==
    ( /\ SameArgs(cPrev, cLast)
      /\ Stored(cPrev)
      /\ ~cLast.geterr
      /\ cLast.start - cPrev.start < ttl_seconds )
    => /\ cLast.hit
       /\ cLast.invoked = 0
       /\ cLast.out = cPrev.out

\* C5: an entry expires exactly ttl_seconds after it was stored and only a miss
\* rewrites it: a step that changes the store is the return of a missed call
\* that stores its result under its key with expiry now + ttl_seconds and leaves
\* the other entries alone (so a hit extends nothing); a lookup that ends the
\* call at once is a hit and finds the entry before its expiry (so a call at or
\* after the expiry is a miss); and a missed call invokes the function.
C5_ExpiryFixedAtStore ==
    [][ /\ cache' # cache =>
              /\ cpc = "exec"
              /\ ~cLast'.hit
              /\ Stored(cLast')
              /\ ExpiryOf(cache', cLast'.key) = now + ttl_seconds
              /\ \A e \in cache : e.key # cLast'.key => e \in cache'
        /\ (ccalls' # ccalls /\ cpc' = "idle" /\ cLast'.gets = 1 /\ ~cLast'.geterr) =>
              /\ cLast'.hit
              /\ now < ExpiryOf(cache, cLast'.key)
        /\ (cpc = "exec" /\ cpc' = "idle") => cLast'.invoked = 1
      ]_vars

\* A call was a hit, and the next call with the same arguments, one tick later,
\* was a miss that invoked the function and stored its result.
C5_MissAfterHitAtExpiry ==
    /\ cPrev.hit
    /\ SameArgs(cPrev, cLast)
    /\ cLast.start = cPrev.start + 1
    /\ ~cLast.hit
    /\ cLast.invoked = 1
    /\ Stored(cLast)

\* C6: RedisRateLimiter fails open: a call during which a read or write of the
\* store raised invoked the callable once with its arguments and did what the
\* callable did, raising nothing of its own, after a sleep of at most
\* window_seconds; no call is lost to a store error.
C6_FailOpen ==
    /\ swLast.err => /\ InvokedOnce(swLast)
                     /\ swLast.slept <= window_seconds
    /\ ~swStoreOk => Len(swInvoked) = swcalls - SWInProgress

\* A call slept, then its cache.set raised, and it returned the callable's result.
C6_SetRaisedAfterSleep ==
    /\ swLast.err
    /\ swLast.slept > 0
    /\ swLast.out = "return:info"

\* C7: when cache.get or cache.set raises, the call behaves as on a miss: it
\* invokes the function once, does what the function did, and stores nothing.
C7_StoreDownIsMiss ==
    (cLast.geterr \/ cLast.seterr) =>
       /\ cLast.invoked = 1
       /\ cLast.out = cLast.fout
       /\ ~Stored(cLast)

\* C8: a call whose key derivation raised invoked the function once, did what
\* the function did, and called neither cache.get nor cache.set.
C8_UncacheableSkipsCaching ==
    cLast.exc # "" =>
       /\ cLast.invoked = 1
       /\ cLast.out = cLast.fout
       /\ cLast.gets = 0
       /\ cLast.sets = 0

\* Structural equality of two values: dicts hold equal values under the same
\* keys, in whatever order; sequences hold equal values at each position.
RECURSIVE StructEq(_, _)
StructEq(v, w) ==
    /\ v.t = w.t
    /\ v.a = w.a
    /\ Len(v.items) = Len(w.items)
    /\ IF v.t = "dict"
       THEN \A i \in 1..Len(v.items) : \E j \in 1..Len(w.items) :
                v.items[i].k = w.items[j].k /\ StructEq(v.items[i], w.items[j])
       ELSE \A i \in 1..Len(v.items) :
                v.items[i].k = w.items[i].k /\ StructEq(v.items[i], w.items[i])

\* Two calls whose positional and keyword arguments are structurally equal.
StructEqCalls(c, d) ==
    /\ Len(c.args) = Len(d.args)
    /\ \A i \in 1..Len(c.args) : StructEq(c.args[i], d.args[i])
    /\ StructEq(PyDict(c.kwargs), PyDict(d.kwargs))

\* C9: two calls whose mapping arguments and keyword arguments are structurally
\* equal get the same key whatever the insertion order, so that the second,
\* made within ttl_seconds of a first that stored a value other than None, is a
\* hit returning that value.
C9_KeyOrderInvariant ==
    (cPrev.inp # 0 /\ cLast.inp # 0 /\ StructEqCalls(cIn[cPrev.inp], cIn[cLast.inp])) =>
       /\ cLast.key = cPrev.key
       /\ cLast.exc = cPrev.exc
       /\ ( /\ Stored(cPrev)
            /\ cPrev.out.val # "None"
            /\ ~cLast.geterr
            /\ cLast.start - cPrev.start < ttl_seconds )
          => (cLast.hit /\ cLast.out = cPrev.out)

\* A call with a mapping was a hit on the entry stored by the call before it,
\* made with the same mapping in another insertion order.
C9_ReorderedMappingHit ==
    /\ cLast.hit
    /\ Stored(cPrev)
    /\ cLast.inp # cPrev.inp
    /\ cIn[1] # cIn[2]
    /\ StructEqCalls(cIn[1], cIn[2])

\* The two calls of the behaviour each take one list, and the lists hold the
\* same elements in a different order.
Count(items, x) == Cardinality({i \in 1..Len(items) : items[i] = x})
PermutedLists ==
    /\ \A n \in 1..2 : /\ Len(cIn[n].args) = 1
                       /\ cIn[n].args[1].t = "list"
                       /\ cIn[n].kwargs = <<>>
    /\ cIn[1].args[1].items # cIn[2].args[1].items
    /\ Len(cIn[1].args[1].items) = Len(cIn[2].args[1].items)
    /\ \A i \in 1..Len(cIn[1].args[1].items) :
          Count(cIn[1].args[1].items, cIn[1].args[1].items[i])
              = Count(cIn[2].args[1].items, cIn[1].args[1].items[i])

\* The elements of both lists are ints and strings.
ScalarElements ==
    \A n \in 1..2 : \A i \in 1..Len(cIn[n].args[1].items) :
        cIn[n].args[1].items[i].t \in {"int", "str"}

\* The first two calls of the behaviour were made with the one and the other
\* argument list, and the second read the store.
FirstTwoCallsDiffer ==
    /\ ccalls = 2
    /\ cpc = "idle"
    /\ cPrev.inp # 0
    /\ cLast.inp # cPrev.inp
    /\ ~cLast.geterr

C11_DifferentArgsDifferentKeys ==
    ( /\ cPrev.inp # 0
      /\ cLast.inp # 0
      /\ cPrev.exc = ""
      /\ cLast.exc = ""
      /\ ~StructEqCalls(cIn[cPrev.inp], cIn[cLast.inp]) )
    => cLast.key # cPrev.key

\* C12: an invalidate_cache call that returns True deletes the entry under the
\* key of the call it names and nothing else, leaving the store as if that
\* call had never been cached; the next wrapper call with those arguments is
\* not a hit, and a missed call invokes the function.
C12_InvalidateDeletesKey ==
    [][ /\ (cInv' # cInv /\ cInv'.fresh /\ cInv'.ret) =>
              cache' = {e \in cache :
                          e.key # GenerateCacheKey(FuncName, cIn[cInv'.inp].args,
                                                   cIn[cInv'.inp].kwargs, KeyPrefix).key}
        /\ (cInv' # cInv /\ cInv'.fresh /\ ~cInv'.ret) => cache' = cache
        /\ ( /\ ccalls' # ccalls
             /\ cInv.fresh
             /\ cInv.ret
             /\ cpc' = "idle"
             /\ cIn[cLast'.inp] = cIn[cInv.inp] ) => ~cLast'.hit
        /\ (cpc = "exec" /\ cpc' = "idle" /\ cInv.inp # 0) => cLast'.invoked = 1
      ]_vars

\* A live entry was deleted by invalidate_cache, and the one wrapper call made
\* since, with the same arguments, missed, invoked the function and stored its
\* result.
C12_MissAfterInvalidate ==
    /\ cInv.ret
    /\ cInv.had
    /\ ~cInv.fresh
    /\ cPrev = NoCachedCall
    /\ cLast.inp # 0
    /\ cIn[cLast.inp] = cIn[cInv.inp]
    /\ ~cLast.hit
    /\ cLast.invoked = 1
    /\ Stored(cLast)

\* ------------------------------------------------------------- monitor claims
\* The stats stored under the calls key of api, or the empty stats.
Bucket(api) == MonGet(monStore, CallsKey(api), EmptyStats(now), now)

Incr(b) == IF b THEN 1 ELSE 0

\* C13: a record_call executed sequentially (no other operation between its
\* start and its end, the store working) stores counters in which total is the
\* total it found plus exactly 1, failed is increased by 1 if and only if
\* success is false, and rate_limited by 1 if and only if response_code is 429,
\* each whatever the other does; what it found is the stored bucket, and on an
\* absent bucket it is all-zero counters.
C13_CountersIncrement ==
    [][ \A p \in Procs :
          /\ (monpc[p] = "idle" /\ monpc'[p] = "set" /\ monSequential') =>
                /\ MonLive(monStore, CallsKey(monapi'[p]), now) =>
                      monread'[p] = monStore[CallsKey(monapi'[p])].stats
                /\ ~MonLive(monStore, CallsKey(monapi'[p]), now) =>
                      /\ monread'[p].total = 0
                      /\ monread'[p].failed = 0
                      /\ monread'[p].rate_limited = 0
          /\ (monpc[p] = "set" /\ monpc'[p] # "set" /\ monSequential /\ monStoreOk') =>
                LET after == monStore'[CallsKey(monapi[p])].stats
                IN  /\ MonLive(monStore', CallsKey(monapi[p]), now)
                    /\ after.total = monread[p].total + 1
                    /\ after.failed = monread[p].failed + Incr(~monin[p].success)
                    /\ after.rate_limited =
                          monread[p].rate_limited + Incr(monin[p].response_code = 429)
      ]_vars

\* A successful call answered 429 was the first on an absent bucket.
C13_SuccessfulCallCounted429 ==
    /\ monSequential /\ monStoreOk
    /\ \A p \in Procs : monpc[p] = "idle"
    /\ MonLive(monStore, CallsKey("finnhub"), now)
    /\ Bucket("finnhub").total = 1
    /\ Bucket("finnhub").failed = 0
    /\ Bucket("finnhub").rate_limited = 1

\* C14: whatever the interleaving of record_call invocations, the stored
\* counters total, failed and rate_limited of an API do not decrease from one
\* state to the next unless reset_stats ran or the bucket timed out in between.
C14_CountersNeverDecrease ==
    [][ \A a \in Apis :
          ( /\ monResets'[a] = monResets[a]
            /\ MonLive(monStore, CallsKey(a), now)
            /\ MonLive(monStore, CallsKey(a), now') ) =>
             /\ MonLive(monStore', CallsKey(a), now')
             /\ monStore'[CallsKey(a)].stats.total >= monStore[CallsKey(a)].stats.total
             /\ monStore'[CallsKey(a)].stats.failed >= monStore[CallsKey(a)].stats.failed
             /\ monStore'[CallsKey(a)].stats.rate_limited >=
                   monStore[CallsKey(a)].stats.rate_limited
      ]_vars

C16_NoAlertWithinCooldown ==
    \A a \in Apis : \A i, j \in DOMAIN monAlerts[a] :
        i < j => monAlerts[a][j] - monAlerts[a][i] >= CooldownTicks

RECURSIVE Sum(_)
\* sum(seq)
Sum(seq) == IF seq = <<>> THEN 0 ELSE Head(seq) + Sum(Tail(seq))

\* The quotient n / d as a fraction.
Fraction(n, d) == [num |-> n, den |-> d]

\* The float 0.0.
Zero == Fraction(0, 1)

\* Every quotient taken whatever the divisor.
Unguarded(n, d) == Fraction(n, d)

\* (n / d) if d > 0 else 0.0
Guarded(n, d) == IF d > 0 THEN Fraction(n, d) ELSE Zero

\* get_stats() of the monitor of api.
GetStats(api) ==
    LET stats == MonGet(monStore, CallsKey(api), EmptyStats(now), now)
        success_count == stats.total - stats.failed
    IN  [api_name |-> api,
         total_calls |-> stats.total,
         successful_calls |-> success_count,
         failed_calls |-> stats.failed,
         rate_limited_calls |-> stats.rate_limited,
         success_rate |-> Guarded(success_count, stats.total),
         rate_limited_percentage |-> Guarded(stats.rate_limited, stats.total),
         average_latency_ms |-> Guarded(Sum(stats.latencies), Len(stats.latencies)),
         window_start |-> stats.start_time,
         window_minutes |-> MonWindowTicks]

\* C17: the bucket expires window_minutes*60 seconds after its window_start:
\* whenever get_stats counts any call, its window_start, and with it every call
\* counted, is at most window_minutes*60 seconds old.
C17_WindowExpires ==
    \A a \in Apis :
        GetStats(a).total_calls > 0 =>
            now - GetStats(a).window_start <= GetStats(a).window_minutes

\* C18: once reset_stats() has run for an API, get_stats() for it counts no
\* more calls than were recorded since the reset, and reports all counters
\* zero when there were none.
C18_ResetClears ==
    \A a \in Apis :
        monResets[a] > 0 =>
            /\ GetStats(a).total_calls <= monSince[a]
            /\ GetStats(a).failed_calls <= monSince[a]
            /\ GetStats(a).rate_limited_calls <= monSince[a]

\* The fraction is the quotient n / d, or 0.0 when d is 0.
IsQuotient(f, n, d) ==
    /\ f.den # 0
    /\ IF d = 0 THEN f.num = 0 ELSE f.num * d = n * f.den

\* C19: in every reachable state of the store, also during and after
\* interleaved calls, get_stats returns successful_calls = total - failed with
\* 0 <= failed <= total and 0 <= rate_limited <= total, success_rate and
\* rate_limited_percentage as the quotients by total (0.0 when total is 0) and
\* average_latency_ms as the mean of the stored samples (0.0 when there are
\* none), and takes no quotient by zero.
C19_DerivedMetrics ==
    \A a \in Apis :
        LET g == GetStats(a)
            lat == IF MonLive(monStore, CallsKey(a), now)
                   THEN monStore[CallsKey(a)].stats.latencies ELSE <<>>
        IN  /\ g.successful_calls = g.total_calls - g.failed_calls
            /\ 0 <= g.failed_calls /\ g.failed_calls <= g.total_calls
            /\ 0 <= g.rate_limited_calls /\ g.rate_limited_calls <= g.total_calls
            /\ IsQuotient(g.success_rate, g.successful_calls, g.total_calls)
            /\ IsQuotient(g.rate_limited_percentage, g.rate_limited_calls, g.total_calls)
            /\ IsQuotient(g.average_latency_ms, Sum(lat), Len(lat))

\* One monitor has no bucket while the other holds a failed call and a
\* successful one with a latency sample.
C19_EmptyAndMixedBuckets ==
    /\ GetStats("yfinance").total_calls = 0
    /\ GetStats("finnhub").total_calls = 2
    /\ GetStats("finnhub").failed_calls = 1
    /\ GetStats("finnhub").average_latency_ms = Fraction(100, 1)

\* C20: the bucket of an API changes only in a step of a record_call or a
\* reset_stats on that API's monitor, and its cooldown flag and its alerts
\* only in a step of a record_call on that monitor, whatever is interleaved
\* with it; and while it has not been reset its counters count no more than
\* the calls made on its own monitor.
C20_MonitorsIsolated ==
    [][ \A b \in Apis :
          /\ monStore'[CallsKey(b)] # monStore[CallsKey(b)] =>
                \/ \E p \in Procs : monpc[p] = "set" /\ monapi[p] = b /\ monpc'[p] # "set"
                \/ monResets'[b] # monResets[b]
          /\ ( \/ monStore'[CooldownKey(b)] # monStore[CooldownKey(b)]
               \/ monAlerts'[b] # monAlerts[b] ) =>
                \E p \in Procs : monpc[p] = "alert" /\ monapi[p] = b /\ monpc'[p] = "idle"
          /\ monResets[b] = 0 =>
                /\ GetStats(b).total_calls <= monSince[b]
                /\ GetStats(b).failed_calls <= monSince[b]
                /\ GetStats(b).rate_limited_calls <= monSince[b]
      ]_vars

\* Interleaved calls on the two monitors: one alerted on its twentieth call,
\* the other holds its single call and has no cooldown flag.
C20_InterleavedCallsKeptApart ==
    /\ ~monSequential
    /\ GetStats("yfinance").total_calls = MinSample
    /\ monAlerts["yfinance"] # <<>>
    /\ GetStats("finnhub").total_calls = 1
    /\ monAlerts["finnhub"] = <<>>
    /\ ~MonLive(monStore, CooldownKey("finnhub"), now)

\* ------------------------------------------------------------ limiter claims
\* Calls admitted without sleeping whose callable was invoked at tick t.
AdmittedAt(invoked, slept, t) ==
    Cardinality({i \in 1..Len(invoked) : invoked[i] = t /\ slept[i] = 0})

\* C21: a RateLimiter whose bucket is full, on a fresh instance or after one
\* idle second, admits the next N = calls_per_second calls without sleeping:
\* a call is admitted without sleeping exactly when the refilled bucket holds a
\* whole token, which it then takes, and the first N calls of an instance never
\* sleep; the bucket never holds more than N tokens, so no more than N calls
\* are admitted without sleeping at one instant.
C21_BurstUpToCapacity ==
    [][ /\ \A t \in Threads :
             (tbpc[t] = "acquire" /\ tbpc'[t] # "acquire") =>
                LET tok == Min(rate * TicksPerToken, tokens + (now - last_update))
                IN  /\ now - last_update >= Second(rate) => tok = rate * TicksPerToken
                    /\ tbpc'[t] = "idle" <=> tok >= TicksPerToken
                    /\ tbpc'[t] = "idle" => tokens' = tok - TicksPerToken
        /\ tokens' <= rate * TicksPerToken
        /\ \A i \in 1..Len(tbSlept') : i <= rate => tbSlept'[i] = 0
        /\ \A i \in 1..Len(tbInvoked') : 
              AdmittedAt(tbInvoked', tbSlept', tbInvoked'[i]) <= rate
      ]_vars

\* An instance of rate 1 admitted its first call, one idle second later
\* admitted the next without sleeping, and delayed the call after that, made at
\* the same instant, by the time of a whole token.
C21_BurstThenIdleThenBurst ==
    /\ rate = 1
    /\ Len(tbInvoked) = 3
    /\ tbInvoked[2] = tbInvoked[1] + Second(rate)
    /\ tbSlept = <<0, 0, TicksPerToken>>
    /\ tbInvoked[3] = tbInvoked[2] + TicksPerToken

\* C22: once the burst is exhausted the limiter keeps the configured rate: for
\* sequential callers, a call that had to sleep is delayed by at most 1/N
\* second, and the k calls that follow it are invoked no earlier than k/N
\* seconds after it.
C22_RateKeptAfterBurst ==
    tbSequential =>
    \A i \in 1..Len(tbInvoked) :
        tbSlept[i] > 0 =>
            /\ tbSlept[i] <= TicksPerToken
            /\ \A j \in 1..Len(tbInvoked) :
                  j > i => tbInvoked[j] - tbInvoked[i] >= (j - i) * TicksPerToken

\* C23: the limiter class is selected once at import: RateLimiter when DEBUG is
\* on; RedisRateLimiter when DEBUG is off and the probe succeeds, that is none
\* of its store operations raises and the value written is read back;
\* RateLimiter when the probe raises or reads back another value.  Both
\* instances, of 5 calls/s and 1 call/s, are of the class selected, and calls
\* go through a limiter of that class.
C23_SelectedOnceAtImport ==
    [][ /\ RateLimiterClass # Unset => RateLimiterClass' = RateLimiterClass
        /\ RateLimiterClass' # Unset =>
              /\ RateLimiterClass' = "RedisRateLimiter" <=>
                    (~DEBUG' /\ selErr' = "" /\ selRead' = "test")
              /\ RateLimiterClass' = "RateLimiter" <=>
                    (DEBUG' \/ selErr' # "" \/ selRead' = "None")
              /\ DEBUG' => selRead' = "unread" /\ selErr' = ""
              /\ yfinance_limiter' = [class |-> RateLimiterClass', calls_per_second |-> 5]
              /\ finnhub_limiter' = [class |-> RateLimiterClass', calls_per_second |-> 1]
        /\ RateLimiterClass' # "RateLimiter" => tbcalls' = 0
        /\ RateLimiterClass' # "RedisRateLimiter" => swcalls' = 0
      ]_vars

\* With DEBUG off the probe wrote, read back and deleted its value, and a call
\* has gone through the sliding window.
C23_ProbePassedWindowInUse ==
    /\ ~DEBUG
    /\ selRead = "test"
    /\ selErr = ""
    /\ RateLimiterClass = "RedisRateLimiter"
    /\ swInvoked # <<>>

\* Threads inside the `with self.lock` block.
InBlock == {t \in Threads : tbpc[t] \in {"refill", "check", "take", "sleep"}}

\* C24: the refill-check-decide sequence of a RateLimiter is executed by at
\* most one caller at a time, the holder of the lock; hence every caller
\* admitted without waiting takes a whole token that was there and that no
\* other caller takes: the decrement starts from the tokens its own check saw,
\* at least 1, and leaves tokens >= 0.
C24_OneCallerInBlock ==
    [][ /\ Cardinality(InBlock') <= 1
        /\ \A t \in InBlock' : lock' = t
        /\ \A t \in Threads :
              (tbpc[t] = "take" /\ tbpc'[t] = "idle") =>
                 /\ tokens >= TicksPerToken
                 /\ tokens' = tokens - TicksPerToken
        /\ tokens' >= 0
      ]_vars

\* Two callers arrived together at a bucket of rate 1 holding one token: one
\* was admitted without waiting, the other sleeps for the time of a token.
C24_OneOfTwoAdmitted ==
    /\ rate = 1
    /\ ~tbSequential
    /\ tbInvoked = <<now>>
    /\ tbSlept = <<0>>
    /\ \E t \in Threads : tbpc[t] = "sleep" /\ tbwake[t] = now + TicksPerToken

\* C25: in every reachable state of a RateLimiter 0 <= tokens <=
\* calls_per_second; with the clock non-decreasing, last_update never
\* decreases and the refill never lowers tokens.
C25_TokensInRange ==
    [][ /\ 0 <= tokens /\ tokens <= rate * TicksPerToken
        /\ 0 <= tokens' /\ tokens' <= rate * TicksPerToken
        /\ last_update' >= last_update
        /\ last_update' <= now'
        /\ \A t \in Threads :
              (tbpc[t] = "refill" /\ tbpc'[t] = "check") => tokens' >= tokens
      ]_vars

\* A refill after idle time has just brought a used bucket of rate 2 back to
\* its capacity and no further.
C25_RefilledToCapacity ==
    /\ rate = 2
    /\ Len(tbInvoked) = 2
    /\ \E t \in Threads : tbpc[t] = "check"
    /\ last_update = now
    /\ last_update >= tbInvoked[2] + Second(rate)
    /\ tokens = rate * TicksPerToken

\* C26: with the lock granted fairly, every call through either limiter
\* comes to invoke the wrapped callable; a call sleeps at most once, for at
\* most 1/calls_per_second in RateLimiter and at most window_seconds in
\* RedisRateLimiter, and after waking goes on to the invocation without
\* testing the limit again.
C26_EveryCallInvokes ==
    /\ \A t \in Threads : (tbpc[t] # "idle") ~> (tbpc[t] = "idle")
    /\ \A p \in Procs : (swpc[p] # "idle") ~> (swpc[p] = "idle")
    /\ [](/\ \A t \in Threads : tbpc[t] = "sleep" => tbwake[t] <= last_update + TicksPerToken
          /\ \A p \in Procs : swpc[p] = "sleep" => swsleep[p] <= window_seconds
          /\ \A i \in 1..Len(tbSlept) : tbSlept[i] <= TicksPerToken
          /\ \A i \in 1..Len(swSlept) : swSlept[i] <= window_seconds
          /\ Len(tbInvoked) = tbcalls - TBInProgress
          /\ Len(swInvoked) = swcalls - SWInProgress)
    /\ [][ /\ \A t \in Threads :
                /\ tbpc[t] = "sleep" => tbpc'[t] \in {"sleep", "idle"}
                /\ tbpc'[t] = "idle" /\ tbpc[t] # "idle" =>
                      Len(tbInvoked') = Len(tbInvoked) + 1
           /\ \A p \in Procs :
                /\ swpc[p] = "sleep" => swpc'[p] \in {"sleep", "set"}
                /\ swpc[p] = "set" => swpc'[p] \in {"set", "idle"}
                /\ swpc'[p] = "idle" /\ swpc[p] # "idle" =>
                      Len(swInvoked') = Len(swInvoked) + 1
         ]_vars

\* A call through the sliding window slept the whole window and then invoked
\* the callable, after the clock's last regular tick.
C26_SleptWholeWindowThenInvoked ==
    /\ swSlept # <<>>
    /\ swSlept[Len(swSlept)] = window_seconds
    /\ swInvoked[Len(swInvoked)] > MaxTime
    /\ \A p \in Procs : swpc[p] = "idle"

\* ------------------------------------------------------------- window claims
\* C27: when several processes call one function through a RedisRateLimiter
\* whose store works, the race between their reads and writes of the stored
\* list admits at most one call too many: no more than calls_per_second + 1
\* invocations fall within any interval of window_seconds.
C27_OverAdmitsByAtMostOne ==
    (swStoreOk /\ Cardinality(decorated) = 1) =>
    \A i \in 1..Len(swInvoked) :
        InWindow(swInvoked, swInvoked[i], window_seconds) <= calls_per_second + 1

\* C30: the functions decorated with one RedisRateLimiter instance share its
\* budget as they do under the token bucket: with a working store and callers
\* that never overlap, write the store in the tick they read the clock and have
\* not slept, their combined invocations within any interval of window_seconds
\* number at most calls_per_second.
C30_OneBudgetPerInstance ==
    (swStoreOk /\ swPrompt /\ ~swConcurrent /\ \A i \in 1..Len(swSlept) : swSlept[i] = 0) =>
    \A i \in 1..Len(swInvoked) :
        InWindow(swInvoked, swInvoked[i], window_seconds) <= calls_per_second

\* ------------------------------------------------------------ monitor races
\* C29: no recorded call is lost: when every record_call made for an API has
\* completed, all of them within the window that began with the first, with a
\* working store and no reset, get_stats reports as total_calls the number of
\* calls made, whatever threads or processes made them and however they
\* interleaved.
C29_NoRecordedCallLost ==
    \A a \in Apis :
        ( /\ monStoreOk
          /\ monResets[a] = 0
          /\ now < MonWindowTicks
          /\ InFlight(a) = 0 ) =>
            GetStats(a).total_calls = monSince[a]

\* -------------------------------------------------------------- fetch claims
\* C28: every completed call of _fetch_ticker_info passed the rate limiter
\* first and the cache lookup second; on a hit it made no network call and no
\* record_call; on a miss whose network call returned it made the network
\* call, record_call, the cache store and the return in that order; on a miss
\* whose network call raised it recorded the outcome once as a failure, the
\* caller got that exception and nothing was stored.  Calls whose cache.get
\* raised are left aside.
C28_FetchOrder ==
    (fLast # NoFetch /\ ~fLast.geterr) =>
       /\ Len(fLast.trace) >= 2
       /\ fLast.trace[1] = "limiter"
       /\ fLast.trace[2] = "lookup"
       /\ fLast.hit => /\ fLast.trace = <<"limiter", "lookup">>
                       /\ fLast.rec = <<>>
       /\ (~fLast.hit /\ fLast.net.kind = "return") =>
             /\ fLast.trace = <<"limiter", "lookup", "network", "record", "store">>
             /\ Len(fLast.rec) = 1
             /\ fLast.rec[1].success
             /\ fLast.out = "return:info"
       /\ (~fLast.hit /\ fLast.net.kind # "return") =>
             /\ fLast.trace = <<"limiter", "lookup", "network", "record">>
             /\ Len(fLast.rec) = 1
             /\ ~fLast.rec[1].success
             /\ fLast.out = "raise:" \o fLast.net.kind
             /\ ~fLast.stored
====
